---- MODULE Spec2Model ----
(***************************************************************************)
(* Model of the Connect Ai front-end (App component, geminiService).       *)
(*                                                                         *)
(* State is the React state and refs of App (chatSessions, folders,        *)
(* activeChatId, isLoading, abortControllerRef), the millisecond clock     *)
(* read by Date.now(), the pending setTimeout(0) callbacks with the        *)
(* values their closures captured, and one record per submitPrompt call    *)
(* that passed its guard (a "generation").                                 *)
(*                                                                         *)
(* Event handlers run to completion (one action each); an async function   *)
(* is cut at its awaits of external events (the stream opening, the next   *)
(* chunk).  Handlers invoked from the UI read the state of the latest      *)
(* render; a setTimeout callback and the continuation of an async function *)
(* read the values captured by the render that created them.               *)
(*                                                                         *)
(* Text is a sequence of tokens, so concatenation is \o and the empty      *)
(* string is <<>>.  Identifiers are the numbers Date.now() returned.       *)
(* Image attachments and the sampling parameters other than temperature    *)
(* are left out: no modelled step reads them.                              *)
(***************************************************************************)
EXTENDS Naturals, Integers, Sequences, FiniteSets, TLC

VARIABLES
    chatSessions,        \* useState<ChatSession[]>([])
    folders,             \* useState<Folder[]>([])
    activeChatId,        \* useState<string | null>(null)
    isLoading,           \* useState(false)
    abortControllerRef,  \* useRef<AbortController | null>: index of the generation owning it
    gens,                \* the submitPrompt calls that passed the guard, in start order
    timers,              \* pending setTimeout(0) callbacks, FIFO, with captured closure values
    now,                 \* Date.now()
    loaded,              \* the mount effect has run
    apiKey,              \* process.env.API_KEY is set
    \* LiveChatView
    isLive,                  \* useState(false)
    transcriptions,          \* useState<TranscriptionMessage[]>([])
    error,                   \* useState<string | null>(null)
    isCameraOn,              \* useState(false)
    sessionPromiseRef,       \* useRef<Promise<any> | null>: index of the live call owning it
    streamRef,               \* useRef<MediaStream | null>: index into streams
    inputAudioContextRef,    \* useRef<AudioContext | null>: "null", or the state of the context
    outputAudioContextRef,   \* useRef<AudioContext | null>: "null", or the state of the context
    scriptProcessorRef,      \* useRef<ScriptProcessorNode | null>: index of the live call that made it
    mediaStreamSourceRef,    \* useRef<MediaStreamAudioSourceNode | null>: likewise
    sourcesRef,              \* useRef<Set<AudioBufferSourceNode>>: indices into scheduled
    nextStartTimeRef,        \* useRef(0)
    frameIntervalRef,        \* useRef<number | null>: the interval is running
    streams,                 \* the MediaStreams getUserMedia returned, with their tracks
    liveCalls,               \* the startConversation calls, with the session each one opened
    decoding,                \* onmessage calls suspended at await decodeAudioData, FIFO
    toolCalls,               \* function calls received, with their 1500 ms timers
    toolResponses,           \* sendToolResponse calls made
    scheduled,               \* source.start calls made on the output context
    currentTime,             \* outputAudioContextRef.current.currentTime
    stopSteps,               \* teardown steps the latest stopConversation call reached
    interruption,            \* for the properties: whether an interrupted message was handled
                             \* since the output context was made (seen), and no audio chunk
                             \* arrived since the last one (fresh)
    received                 \* number of server messages onmessage has handled

liveVars == <<isLive, transcriptions, error, isCameraOn, sessionPromiseRef, streamRef,
              inputAudioContextRef, outputAudioContextRef, scriptProcessorRef,
              mediaStreamSourceRef, sourcesRef, nextStartTimeRef, frameIntervalRef,
              streams, liveCalls, decoding, toolCalls, toolResponses, scheduled,
              currentTime, stopSteps, interruption, received>>

vars == <<chatSessions, folders, activeChatId, isLoading, abortControllerRef,
          gens, timers, now, loaded, apiKey, liveVars>>

storeVars == <<chatSessions, folders, activeChatId>>
genVars   == <<isLoading, abortControllerRef, gens, timers>>

-----------------------------------------------------------------------------
(* Bounds of the model *)

MaxTicks    == 1    \* clock advances at most this many milliseconds
MaxSessions == 2    \* sessions in the store
MaxFolders  == 2    \* folders in the store
MaxGens     == 2    \* submitPrompt calls made or scheduled in one behaviour
MaxChunks   == 2    \* packets the external streams yield in one behaviour
MaxMessages == 4    \* messages in a session before a further send
MaxLiveCalls  == 2  \* startConversation calls in one behaviour
MaxStreams    == 2  \* MediaStreams getUserMedia returns in one behaviour
MaxEntries    == 4  \* transcript entries
MaxTextLen    == 2  \* tokens in one transcript entry
MaxAudio      == 2  \* audio chunks received in one behaviour
MaxToolCalls  == 1  \* function calls received in one behaviour
MaxAudioTime  == 2  \* the audio clock advances at most this far
MaxReceived   == 3  \* server messages handled in one behaviour

StartTime   == 10   \* Date.now() at mount; stored ids are older

Null == 0           \* null / undefined (ids are positive)

-----------------------------------------------------------------------------
(* Generic sequence helpers: Array.prototype.map / filter / some *)

Map(s, F(_)) == [i \in 1..Len(s) |-> F(s[i])]

Filter(s, P(_)) == SelectSeq(s, P)

Ids(s) == {s[i].id : i \in 1..Len(s)}

RECURSIVE Flatten(_)
Flatten(ss) == IF ss = <<>> THEN <<>> ELSE Head(ss) \o Flatten(Tail(ss))

-----------------------------------------------------------------------------
(* Data *)

USER  == "user"
MODEL == "model"

defaultSystemPrompt == <<"You are a helpful and friendly AI assistant named Connect Ai.">>

NewConversation == <<"New Conversation">>

\* handleNewChat's newChat literal, with id Date.now()
NewChat(id) ==
    [ id              |-> id,
      title           |-> NewConversation,
      messages        |-> <<>>,
      systemPrompt    |-> defaultSystemPrompt,
      temperature     |-> 7,          \* 0.7, in tenths
      useGoogleSearch |-> FALSE,
      pinned          |-> FALSE,
      model           |-> "gemini-2.5-flash" ]

Message(id, role, content) ==
    [ id |-> id, role |-> role, content |-> content, groundingSources |-> <<>> ]

NewFolder(id, name) ==
    [ id |-> id, name |-> name, chatIds |-> <<>>, isOpen |-> TRUE ]

HasChat_Unchecked(sessions, id) == TRUE

\* chatSessions.find(session => session.id === id) is defined;
\* sessions.some(s => s.id === id)
HasChat(sessions, id) == \E i \in 1..Len(sessions) : sessions[i].id = id

FindChat(sessions, id) ==
    sessions[CHOOSE i \in 1..Len(sessions) :
                /\ sessions[i].id = id
                /\ \A j \in 1..(i-1) : sessions[j].id # id]

-----------------------------------------------------------------------------
(* What localStorage may hold at mount: nothing, unparsable text, or what   *)
(* an earlier run of the program saved.                                     *)

SavedChatA == [NewChat(1) EXCEPT !.title = <<"q">>,
                 !.messages = << Message(2, USER, <<"q">>),
                                 [Message(3, MODEL, <<"a">>) EXCEPT
                                     !.groundingSources = <<>>] >>]
SavedChatB == NewChat(4)

SavedFolder == [NewFolder(5, "F") EXCEPT !.chatIds = <<1>>]

SavedStores ==
    { [kind |-> "absent",  sessions |-> <<>>, folders |-> <<>>, activeId |-> Null],
      [kind |-> "corrupt", sessions |-> <<>>, folders |-> <<>>, activeId |-> Null],
      [kind |-> "ok", sessions |-> <<>>, folders |-> <<>>, activeId |-> Null],
      [kind |-> "ok", sessions |-> <<SavedChatA>>, folders |-> <<>>, activeId |-> 1],
      [kind |-> "ok", sessions |-> <<SavedChatB, SavedChatA>>,
         folders |-> <<SavedFolder>>, activeId |-> 1],
      [kind |-> "ok", sessions |-> <<SavedChatB, SavedChatA>>,
         folders |-> <<SavedFolder>>, activeId |-> 9] }

-----------------------------------------------------------------------------
(* Session store *)

\* updateActiveChat: map over the sessions, updating those whose id is the
\* activeChatId captured by the calling render
updateActiveChat(sessions, chatId, Updater(_)) ==
    Map(sessions, LAMBDA s : IF s.id = chatId THEN Updater(s) ELSE s)

\* setChatSessions(prev => [newChat, ...prev])
PrependChat(sessions, id) == <<NewChat(id)>> \o sessions

\* handleNewChat
HandleNewChat ==
    /\ loaded
    /\ Len(chatSessions) < MaxSessions
    /\ chatSessions' = PrependChat(chatSessions, now)
    /\ activeChatId' = now
    /\ UNCHANGED <<folders, genVars, now, loaded, apiKey, liveVars>>

\* Titles typed into the rename box, after trim()
Titles == { <<>>, <<"T">> }

\* handleRenameChat
HandleRenameChat(chatId, newTitle) ==
    /\ loaded
    /\ IF newTitle = <<>>
         THEN UNCHANGED chatSessions
         ELSE chatSessions' = [i \in DOMAIN chatSessions |->
                 IF chatSessions[i].id = chatId
                     THEN [chatSessions[i] EXCEPT !.title = newTitle]
                     ELSE chatSessions[i]]
    /\ UNCHANGED <<folders, activeChatId, genVars, now, loaded, apiKey, liveVars>>

\* handleTogglePinChat
HandleTogglePinChat(chatId) ==
    /\ loaded
    /\ chatSessions' = [i \in DOMAIN chatSessions |->
            IF chatSessions[i].id = chatId
                THEN [chatSessions[i] EXCEPT !.pinned = ~chatSessions[i].pinned]
                ELSE chatSessions[i]]
    /\ UNCHANGED <<folders, activeChatId, genVars, now, loaded, apiKey, liveVars>>

InitialActiveId_Saved(sessions, savedActiveId) == savedActiveId

\* lines 106-109: the saved active id if a loaded session has it, else the
\* id of the first loaded session
InitialActiveId(sessions, savedActiveId) ==
    IF savedActiveId # Null /\ HasChat(sessions, savedActiveId)
    THEN savedActiveId
    ELSE sessions[1].id

\* The mount effect: read localStorage, then select or create a session
LoadEffect ==
    /\ ~loaded
    /\ loaded' = TRUE
    /\ \E saved \in SavedStores :
         /\ folders' = saved.folders
         /\ IF saved.kind = "ok" /\ saved.sessions # <<>>
            THEN /\ chatSessions' = saved.sessions
                 /\ activeChatId' = InitialActiveId(saved.sessions, saved.activeId)
            ELSE /\ chatSessions' = PrependChat(chatSessions, now)
                 /\ activeChatId' = now
    /\ UNCHANGED <<genVars, now, apiKey, liveVars>>

\* onSelectChat={setActiveChatId}, from a sidebar item of an existing session
SelectChat(id) ==
    /\ loaded
    /\ id \in Ids(chatSessions)
    /\ activeChatId' = id
    /\ UNCHANGED <<chatSessions, folders, genVars, now, loaded, apiKey, liveVars>>

RemainingChats_Inverted(sessions, chatId) == Filter(sessions, LAMBDA c : c.id = chatId)

\* chatSessions.filter(c => c.id !== chatId)
RemainingChats(sessions, chatId) == Filter(sessions, LAMBDA c : c.id # chatId)

RemoveFromFolders_Kept(fs, chatId) == fs

\* f.chatIds.filter(id => id !== chatId), for every folder
RemoveFromFolders(fs, chatId) ==
    Map(fs, LAMBDA f : [f EXCEPT !.chatIds = Filter(f.chatIds, LAMBDA id : id # chatId)])

\* handleDeleteChat
HandleDeleteChat(chatId, confirmed) ==
    /\ loaded
    /\ chatId \in Ids(chatSessions)
    /\ IF confirmed
       THEN LET remainingChats == RemainingChats(chatSessions, chatId) IN
              /\ folders' = RemoveFromFolders(folders, chatId)
              /\ IF activeChatId = chatId
                 THEN IF Len(remainingChats) > 0
                      THEN /\ chatSessions' = remainingChats
                           /\ activeChatId' = remainingChats[1].id
                      ELSE /\ chatSessions' = PrependChat(remainingChats, now)
                           /\ activeChatId' = now
                 ELSE /\ chatSessions' = remainingChats
                      /\ UNCHANGED activeChatId
       ELSE UNCHANGED storeVars
    /\ UNCHANGED <<genVars, now, loaded, apiKey, liveVars>>

-----------------------------------------------------------------------------
(* Folders *)

FolderNames == {"F", "G"}

\* setFolders(prev => [newFolder, ...prev])
HandleCreateFolder(name) ==
    /\ loaded
    /\ Len(folders) < MaxFolders
    /\ folders' = <<NewFolder(now, name)>> \o folders
    /\ UNCHANGED <<chatSessions, activeChatId, genVars, now, loaded, apiKey, liveVars>>

DeleteFolder_Inverted(fs, folderId) == Filter(fs, LAMBDA f : f.id = folderId)

\* prev.filter(f => f.id !== folderId)
DeleteFolder(fs, folderId) == Filter(fs, LAMBDA f : f.id # folderId)

HandleDeleteFolder(folderId) ==
    /\ loaded
    /\ folderId \in Ids(folders)
    /\ folders' = DeleteFolder(folders, folderId)
    /\ UNCHANGED <<chatSessions, activeChatId, genVars, now, loaded, apiKey, liveVars>>

HandleRenameFolder(folderId, newName) ==
    /\ loaded
    /\ folderId \in Ids(folders)
    /\ folders' = Map(folders, LAMBDA f : IF f.id = folderId
                                          THEN [f EXCEPT !.name = newName] ELSE f)
    /\ UNCHANGED <<chatSessions, activeChatId, genVars, now, loaded, apiKey, liveVars>>

HandleToggleFolder(folderId) ==
    /\ loaded
    /\ folderId \in Ids(folders)
    /\ folders' = Map(folders, LAMBDA f : IF f.id = folderId
                                          THEN [f EXCEPT !.isOpen = ~f.isOpen] ELSE f)
    /\ UNCHANGED <<chatSessions, activeChatId, genVars, now, loaded, apiKey, liveVars>>

\* the setFolders updater of handleMoveChatToFolder
MoveChatToFolder(fs, chatId, folderId) ==
    LET updatedFolders == RemoveFromFolders(fs, chatId) IN
    IF folderId # Null
    THEN Map(updatedFolders, LAMBDA f : IF f.id = folderId
                                        THEN [f EXCEPT !.chatIds = <<chatId>> \o f.chatIds]
                                        ELSE f)
    ELSE updatedFolders

\* handleMoveChatToFolder, from the "Move to..." menu of a session's sidebar item
HandleMoveChatToFolder(chatId, folderId) ==
    /\ loaded
    /\ chatId \in Ids(chatSessions)
    /\ folders' = MoveChatToFolder(folders, chatId, folderId)
    /\ UNCHANGED <<chatSessions, activeChatId, genVars, now, loaded, apiKey, liveVars>>

-----------------------------------------------------------------------------
(* Generation: submitPrompt and the stream of geminiService.streamResponse *)

Prompts     == { <<"q">> }            \* what the user types before sending
NewContents == { <<"e">> }            \* what the user types when editing a message

\* candidates[0].groundingMetadata.groundingChunks of a packet, when present:
\* two entries with a web uri and, between them, one without
SomeGroundingChunks ==
    << [uri |-> "u", title |-> "t"], [uri |-> "", title |-> "x"], [uri |-> "v", title |-> "w"] >>

\* a GenerateContentResponse packet of the stream
Packet(text, hasGrounding) ==
    [ text |-> text, hasGrounding |-> hasGrounding,
      groundingChunks |-> IF hasGrounding THEN SomeGroundingChunks ELSE <<>> ]

\* the packets a stream may yield: one without text, one with text only,
\* one with text and grounding metadata
Packets == { Packet(<<>>, FALSE), Packet(<<"a">>, FALSE), Packet(<<"b">>, TRUE) }

\* let finalResponsePacket = null
NoPacket == Packet(<<>>, FALSE)

\* errorContent of submitPrompt's catch block, for the message of the error
ErrorContent(errorMessage) ==
    <<"**Error:** I seem to be having trouble connecting.", errorMessage>>

\* the Error streamResponse throws from its catch block
FailedToGetResponse == "Failed to get response from AI."
\* the message of an error the stream throws while it is iterated
StreamFailure == "stream failed"

InFlight(g) == g.pc \in {"requesting", "streaming"}
Settled(g)  == ~InFlight(g)

\* packets the streams have yielded to submitPrompt so far, over all generations
RECURSIVE SumLen(_)
SumLen(gs) == IF gs = <<>> THEN 0 ELSE Len(Head(gs).chunks) + SumLen(Tail(gs))

Delivered == SumLen(gens)

SetContent_All(messages, id, content) ==
    Map(messages, LAMBDA m : [m EXCEPT !.content = content])

\* messages.map(m => m.id === id ? { ...m, content } : m)
SetContent(messages, id, content) ==
    Map(messages, LAMBDA m : IF m.id = id THEN [m EXCEPT !.content = content] ELSE m)

\* messages.map(m => m.id === id ? { ...m, groundingSources: sources } : m)
SetSources(messages, id, sources) ==
    Map(messages, LAMBDA m : IF m.id = id THEN [m EXCEPT !.groundingSources = sources] ELSE m)

\* groundingChunks.map(...).filter(source => source.uri)
Sources(groundingChunks) == Filter(groundingChunks, LAMBDA c : c.uri # "")

Accumulate_Prepended(fullResponse, chunkText) == chunkText \o fullResponse

\* fullResponse += chunkText
Accumulate(fullResponse, chunkText) == fullResponse \o chunkText

\* the content patch of the for-await body, through the captured updateActiveChat
PatchContent(sessions, g, content) ==
    updateActiveChat(sessions, g.chatId,
        LAMBDA chat : [chat EXCEPT !.messages = SetContent(chat.messages, g.msgId, content)])

\* lines 287-300: attach the sources of the last consumed packet, if it has any
AttachSources(sessions, g) ==
    IF g.finalResponsePacket.hasGrounding
    THEN updateActiveChat(sessions, g.chatId,
            LAMBDA chat : [chat EXCEPT !.messages =
                SetSources(chat.messages, g.msgId, Sources(g.finalResponsePacket.groundingChunks))])
    ELSE sessions

\* the values a render's closures hold: isLoading, activeChatId, activeChat
Closure == [ isLoading |-> isLoading, activeChatId |-> activeChatId,
             hasChat |-> HasChat(chatSessions, activeChatId) ]

\* if (isLoading || !activeChat) return;
PassesGuard(cl) == ~cl.isLoading /\ cl.hasChat

\* submitPrompt up to its first await, called with closure cl on the store
\* `sessions` (the store after the caller's own update): the effect on the
\* store, and the record of the generation.  initializeChat (outside the try
\* block) throws when getAiClient finds no API key: the promise is rejected.
SubmitStore(sessions, cl, history) ==
    updateActiveChat(sessions, cl.activeChatId,
        LAMBDA chat : [chat EXCEPT !.messages =
                          history \o <<Message(now + 1, MODEL, <<>>)>>])

SubmitGen(cl, prompt, history) ==
    [ chatId   |-> cl.activeChatId,
      msgId    |-> now + 1,
      prompt   |-> prompt,
      history  |-> history,
      pc       |-> IF apiKey THEN "requesting" ELSE "rejected",
      aborted  |-> FALSE,
      fullResponse |-> <<>>,
      chunks   |-> <<>>,
      finalResponsePacket |-> NoPacket ]

\* finally { setIsLoading(false); abortControllerRef.current = null; }
Finally ==
    /\ isLoading' = FALSE
    /\ abortControllerRef' = Null

\* handleSend, reached through ChatInput.handleLocalSend (if (!isLoading))
HandleSend(prompt) ==
    /\ loaded
    /\ ~isLoading
    /\ HasChat(chatSessions, activeChatId)
    /\ Len(gens) + Len(timers) < MaxGens
    /\ LET activeChat == FindChat(chatSessions, activeChatId)
           userMessage == Message(now, USER, prompt)
           updatedMessages == activeChat.messages \o <<userMessage>>
           title == IF Len(activeChat.messages) = 0 THEN prompt ELSE activeChat.title
           sent == updateActiveChat(chatSessions, activeChatId,
                      LAMBDA chat : [chat EXCEPT !.title = title, !.messages = updatedMessages])
       IN /\ Len(activeChat.messages) < MaxMessages
          /\ chatSessions' = SubmitStore(sent, Closure, updatedMessages)
          /\ gens' = Append(gens, SubmitGen(Closure, prompt, updatedMessages))
          /\ isLoading' = TRUE
          /\ abortControllerRef' = Len(gens) + 1
    /\ UNCHANGED <<folders, activeChatId, timers, now, loaded, apiKey, liveVars>>

\* messages.findIndex(m => m.id === messageId)
FindIndex(messages, messageId) ==
    CHOOSE i \in 1..Len(messages) :
        /\ messages[i].id = messageId
        /\ \A j \in 1..(i-1) : messages[j].id # messageId

\* handleEditMessage, from "Save & Submit" on the user message at position k
\* (ChatMessage.handleSaveEdit calls onEdit only when the content changed)
HandleEditMessage(k, newContent) ==
    /\ loaded
    /\ HasChat(chatSessions, activeChatId)
    /\ Len(gens) + Len(timers) < MaxGens
    /\ LET activeChat == FindChat(chatSessions, activeChatId) IN
       /\ k \in 1..Len(activeChat.messages)
       /\ activeChat.messages[k].role # MODEL
       /\ activeChat.messages[k].content # newContent
       /\ LET messageIndex == FindIndex(activeChat.messages, activeChat.messages[k].id)
              historyUptoEdit == SubSeq(activeChat.messages, 1, messageIndex - 1)
              editedMessage == [activeChat.messages[messageIndex] EXCEPT !.content = newContent]
              updatedMessages == historyUptoEdit \o <<editedMessage>>
          IN /\ chatSessions' = updateActiveChat(chatSessions, activeChatId,
                                   LAMBDA chat : [chat EXCEPT !.messages = updatedMessages])
             /\ timers' = Append(timers, [ closure |-> Closure, prompt |-> newContent,
                                           history |-> updatedMessages ])
    /\ UNCHANGED <<folders, activeChatId, isLoading, abortControllerRef, gens, now, loaded, apiKey, liveVars>>

\* the last message with role user that the filter callback of handleRegenerate visits
LastUserIndex(messages) ==
    CHOOSE i \in 1..Len(messages) :
        /\ messages[i].role = USER
        /\ \A j \in (i+1)..Len(messages) : messages[j].role # USER

\* activeChat.messages.filter(m => m.role !== MessageRole.MODEL)
HistoryWithoutLastModelResponse(messages) == Filter(messages, LAMBDA m : m.role # MODEL)

\* handleRegenerate, from the button shown on a last model message that has
\* content and is not streaming
HandleRegenerate ==
    /\ loaded
    /\ ~isLoading
    /\ HasChat(chatSessions, activeChatId)
    /\ Len(gens) + Len(timers) < MaxGens
    /\ LET activeChat == FindChat(chatSessions, activeChatId)
           n == Len(activeChat.messages)
       IN /\ n > 0
          /\ activeChat.messages[n].role = MODEL
          /\ activeChat.messages[n].content # <<>>
          /\ \E i \in 1..n : activeChat.messages[i].role = USER
          /\ LET lastUserMessage == activeChat.messages[LastUserIndex(activeChat.messages)]
                 history == HistoryWithoutLastModelResponse(activeChat.messages)
             IN /\ chatSessions' = updateActiveChat(chatSessions, activeChatId,
                                      LAMBDA chat : [chat EXCEPT !.messages = history])
                /\ timers' = Append(timers, [ closure |-> Closure,
                                              prompt |-> lastUserMessage.content,
                                              history |-> history ])
    /\ UNCHANGED <<folders, activeChatId, isLoading, abortControllerRef, gens, now, loaded, apiKey, liveVars>>

\* a setTimeout(() => submitPrompt(...), 0) callback runs, with the closure
\* of the render that scheduled it
TimerFire ==
    /\ timers # <<>>
    /\ LET t == Head(timers) IN
       IF PassesGuard(t.closure)
       THEN /\ chatSessions' = SubmitStore(chatSessions, t.closure, t.history)
            /\ gens' = Append(gens, SubmitGen(t.closure, t.prompt, t.history))
            /\ isLoading' = TRUE
            /\ abortControllerRef' = Len(gens) + 1
       ELSE UNCHANGED <<chatSessions, gens, isLoading, abortControllerRef>>
    /\ timers' = Tail(timers)
    /\ UNCHANGED <<folders, activeChatId, now, loaded, apiKey, liveVars>>

\* handleStopGenerating, from the button ChatInput shows while isLoading
HandleStopGenerating ==
    /\ isLoading
    /\ abortControllerRef # Null
    /\ ~gens[abortControllerRef].aborted
    /\ gens' = [gens EXCEPT ![abortControllerRef].aborted = TRUE]
    /\ UNCHANGED <<storeVars, isLoading, abortControllerRef, timers, now, loaded, apiKey, liveVars>>

\* chat.sendMessageStream resolves: wrappedStream is returned and iterated
StreamOpen(g) ==
    /\ gens[g].pc = "requesting"
    /\ gens' = [gens EXCEPT ![g].pc = "streaming"]
    /\ UNCHANGED <<storeVars, isLoading, abortControllerRef, timers, now, loaded, apiKey, liveVars>>

\* chat.sendMessageStream rejects: streamResponse rethrows, submitPrompt
\* writes the error block and runs finally
StreamOpenFail(g) ==
    /\ gens[g].pc = "requesting"
    /\ gens' = [gens EXCEPT ![g].pc = "failed"]
    /\ chatSessions' = PatchContent(chatSessions, gens[g], ErrorContent(FailedToGetResponse))
    /\ Finally
    /\ UNCHANGED <<folders, activeChatId, timers, now, loaded, apiKey, liveVars>>

\* the underlying stream delivers a packet: wrappedStream breaks if the
\* signal is aborted (the loop ends, sources are attached, finally runs),
\* else yields it to the for-await body of submitPrompt
StreamChunk(g, chunk) ==
    /\ gens[g].pc = "streaming"
    /\ (gens[g].aborted \/ Delivered < MaxChunks)
    /\ IF gens[g].aborted
       THEN /\ gens' = [gens EXCEPT ![g].pc = "cancelled"]
            /\ chatSessions' = AttachSources(chatSessions, gens[g])
            /\ Finally
       ELSE LET fullResponse == Accumulate(gens[g].fullResponse, chunk.text) IN
            /\ gens' = [gens EXCEPT ![g].finalResponsePacket = chunk,
                                    ![g].fullResponse = fullResponse,
                                    ![g].chunks = Append(@, chunk.text)]
            /\ chatSessions' = IF chunk.text # <<>>
                               THEN PatchContent(chatSessions, gens[g], fullResponse)
                               ELSE chatSessions
            /\ UNCHANGED <<isLoading, abortControllerRef>>
    /\ UNCHANGED <<folders, activeChatId, timers, now, loaded, apiKey, liveVars>>

\* the underlying stream ends: the loop ends, sources are attached, finally runs
StreamEnd(g) ==
    /\ gens[g].pc = "streaming"
    /\ gens' = [gens EXCEPT ![g].pc = "completed"]
    /\ chatSessions' = AttachSources(chatSessions, gens[g])
    /\ Finally
    /\ UNCHANGED <<folders, activeChatId, timers, now, loaded, apiKey, liveVars>>

\* the underlying stream throws while iterated: the error block is written
StreamError(g) ==
    /\ gens[g].pc = "streaming"
    /\ gens' = [gens EXCEPT ![g].pc = "failed"]
    /\ chatSessions' = PatchContent(chatSessions, gens[g], ErrorContent(StreamFailure))
    /\ Finally
    /\ UNCHANGED <<folders, activeChatId, timers, now, loaded, apiKey, liveVars>>

-----------------------------------------------------------------------------
(* LiveChatView: data *)

SYSTEM == "system"
TOOL   == "tool"

NoError         == "null"
MicError_None == NoError

MicError        == "Could not access microphone. Please check permissions and try again."
CameraError     == "Camera permission is required to use this feature."
ConnectionError == "Connection error. Please try again."

Connecting     == <<"Connecting...">>
ConnectionOpen == <<"Connection open. Start speaking.">>

\* A TranscriptionMessage; id is 'start' or a Date.now() string ("date")
Entry(id, role, text, isFinal) ==
    [ id |-> id, role |-> role, text |-> text, isFinal |-> isFinal ]

\* !text.trim(): only white space
IsBlank(text) == \A i \in 1..Len(text) : text[i] = " "

Max(a, b) == IF a >= b THEN a ELSE b

\* No AudioContext was created yet; otherwise the context made by live call id
NoContext == [ id |-> Null, state |-> "null" ]

\* no interrupted message handled yet
NoInterruption == [seen |-> FALSE, fresh |-> FALSE]

\* name of the declared function, and the texts of the two tool entries
controlLight == "controlLight"
Executing(fc) == <<"Executing", fc.name>>
Executed(fc)  == <<"Successfully executed", fc.name>>

NoTranscription == [ present |-> FALSE, text |-> <<>> ]
Transcription(text) == [ present |-> TRUE, text |-> text ]

\* A LiveServerMessage: the fields onmessage reads
ServerMessage(fcs, input, output, turnComplete, audio, interrupted) ==
    [ functionCalls       |-> fcs,
      inputTranscription  |-> input,
      outputTranscription |-> output,
      turnComplete        |-> turnComplete,
      audio               |-> audio,          \* duration of the inline audio, 0: none
      interrupted         |-> interrupted ]

TranscriptMessages ==
    { ServerMessage(<<>>, Transcription(<<"hel">>), NoTranscription, FALSE, 0, FALSE),
      ServerMessage(<<>>, Transcription(<<"lo">>), NoTranscription, FALSE, 0, FALSE),
      ServerMessage(<<>>, Transcription(<<" ">>), NoTranscription, FALSE, 0, FALSE),
      ServerMessage(<<>>, NoTranscription, Transcription(<<"hi">>), FALSE, 0, FALSE),
      ServerMessage(<<>>, NoTranscription, NoTranscription, TRUE, 0, FALSE),
      ServerMessage(<<>>, Transcription(<<"lo">>), NoTranscription, TRUE, 0, FALSE) }

ToolMessages ==
    { ServerMessage(<< [id |-> 1, name |-> controlLight] >>,
                    NoTranscription, NoTranscription, FALSE, 0, FALSE) }

AudioMessages ==
    { ServerMessage(<<>>, NoTranscription, NoTranscription, FALSE, 1, FALSE),
      ServerMessage(<<>>, NoTranscription, NoTranscription, FALSE, 2, FALSE),
      ServerMessage(<<>>, NoTranscription, NoTranscription, FALSE, 0, TRUE),
      ServerMessage(<<>>, NoTranscription, NoTranscription, FALSE, 1, TRUE) }

ServerMessages == TranscriptMessages \cup ToolMessages \cup AudioMessages

-----------------------------------------------------------------------------
(* LiveChatView: transcript *)

Merge_Replaced(last, text) == text

\* last.text + text
Merge(last, text) == last.text \o text

\* addOrUpdateTranscription: the updater given to setTranscriptions
addOrUpdateTranscription(prev, role, text, isFinal) ==
    IF role = TOOL
    THEN Append(prev, Entry("date", role, text, TRUE))
    ELSE IF prev # <<>> /\ prev[Len(prev)].role = role /\ ~prev[Len(prev)].isFinal
         THEN [prev EXCEPT ![Len(prev)] =
                  [@ EXCEPT !.text = Merge(prev[Len(prev)], text), !.isFinal = isFinal]]
         ELSE IF ~IsBlank(text)
              THEN Append(prev, Entry("date", role, text, isFinal))
              ELSE prev

Finalize_Last(prev) ==
    [i \in 1..Len(prev) |-> IF i = Len(prev) THEN [prev[i] EXCEPT !.isFinal = TRUE] ELSE prev[i]]

\* prev.map(t => (!t.isFinal ? { ...t, isFinal: true } : t))
Finalize(prev) == [i \in 1..Len(prev) |-> [prev[i] EXCEPT !.isFinal = TRUE]]

\* the "Executing ..." entries of the for loop over functionCalls
RECURSIVE ToolEntries(_, _)
ToolEntries(prev, fcs) ==
    IF fcs = <<>> THEN prev
    ELSE ToolEntries(addOrUpdateTranscription(prev, TOOL, Executing(Head(fcs)), TRUE), Tail(fcs))

\* the transcript after the queued updaters of one onmessage call ran in order
TranscriptAfter(prev, m) ==
    LET t1 == ToolEntries(prev, m.functionCalls)
        t2 == IF m.inputTranscription.present
              THEN addOrUpdateTranscription(t1, USER, m.inputTranscription.text, FALSE) ELSE t1
        t3 == IF m.outputTranscription.present
              THEN addOrUpdateTranscription(t2, MODEL, m.outputTranscription.text, FALSE) ELSE t2
    IN  IF m.turnComplete THEN Finalize(t3) ELSE t3

-----------------------------------------------------------------------------
(* LiveChatView: camera and teardown *)

\* track.stop() on the tracks of one kind of the referenced stream
StopTracks(ss, ref, kind) ==
    IF ref = Null THEN ss
    ELSE [ss EXCEPT ![ref] = [@ EXCEPT ![kind] = IF @ = "live" THEN "stopped" ELSE @]]

\* startCamera, permission granted.  The video element is rendered only
\* while isCameraOn, so videoRef.current is null here and srcObject stays unset.
StartCameraGranted ==
    /\ ~isLive /\ ~isCameraOn /\ decoding = <<>>
    /\ Len(streams) < MaxStreams
    /\ IF streamRef # Null
         THEN /\ streams' = [streams EXCEPT ![streamRef] = [@ EXCEPT !.video = "live"]]
              /\ UNCHANGED streamRef
         ELSE /\ streams' = Append(streams, [audio |-> "none", video |-> "live"])
              /\ streamRef' = Len(streams) + 1
    /\ isCameraOn' = TRUE
    /\ UNCHANGED <<storeVars, genVars, now, loaded, apiKey, received,
                   isLive, transcriptions, error, sessionPromiseRef, inputAudioContextRef,
                   outputAudioContextRef, scriptProcessorRef, mediaStreamSourceRef,
                   sourcesRef, nextStartTimeRef, frameIntervalRef, liveCalls, decoding,
                   toolCalls, toolResponses, scheduled, currentTime, stopSteps, interruption>>

\* startCamera, permission denied
StartCameraDenied ==
    /\ ~isLive /\ ~isCameraOn /\ decoding = <<>>
    /\ error' = CameraError
    /\ isCameraOn' = FALSE
    /\ UNCHANGED <<storeVars, genVars, now, loaded, apiKey, received,
                   isLive, transcriptions, sessionPromiseRef, streamRef, inputAudioContextRef,
                   outputAudioContextRef, scriptProcessorRef, mediaStreamSourceRef,
                   sourcesRef, nextStartTimeRef, frameIntervalRef, streams, liveCalls,
                   decoding, toolCalls, toolResponses, scheduled, currentTime, stopSteps,
                   interruption>>

\* stopCamera, from the camera button
StopCamera ==
    /\ ~isLive /\ isCameraOn /\ decoding = <<>>
    /\ streams' = StopTracks(streams, streamRef, "video")
    /\ frameIntervalRef' = Null
    /\ isCameraOn' = FALSE
    /\ UNCHANGED <<storeVars, genVars, now, loaded, apiKey, received,
                   isLive, transcriptions, error, sessionPromiseRef, streamRef,
                   inputAudioContextRef, outputAudioContextRef, scriptProcessorRef,
                   mediaStreamSourceRef, sourcesRef, nextStartTimeRef, liveCalls, decoding,
                   toolCalls, toolResponses, scheduled, currentTime, stopSteps, interruption>>

\* source.stop() on every source of the set
StopSources(sched, srcs) ==
    [k \in 1..Len(sched) |-> IF k \in srcs THEN [sched[k] EXCEPT !.stopped = TRUE] ELSE sched[k]]

\* session.close() once the promise resolves: now if the session is open,
\* after it opens if it is still connecting
RequestClose(calls, ref) ==
    IF ref = Null THEN calls
    ELSE [calls EXCEPT ![ref] =
            IF @.pc = "open" THEN [@ EXCEPT !.pc = "closing"]
            ELSE IF @.pc = "connecting" THEN [@ EXCEPT !.closeRequested = TRUE]
            ELSE @]

StopSteps == {"frames", "tracks", "nodes", "contexts", "sources", "session", "refs"}

Throws_Always(ctx) == TRUE

\* inputAudioContextRef.current?.state !== 'closed' is true for a null ref,
\* and null.close() throws a TypeError
Throws(ctx) == ctx.state = "null"

\* stopConversation, on the live calls as the calling handler left them.
\* It has no try: the statement that throws ends the call.
stopConversation(calls) ==
    /\ isLive' = FALSE
    /\ isCameraOn' = FALSE
    /\ frameIntervalRef' = Null
    /\ streams' = StopTracks(StopTracks(streams, streamRef, "video"), streamRef, "audio")
    /\ streamRef' = Null
    /\ IF Throws(inputAudioContextRef)
         THEN /\ stopSteps' = {"frames", "tracks", "nodes"}
              /\ liveCalls' = calls
              /\ UNCHANGED <<inputAudioContextRef, outputAudioContextRef, sourcesRef,
                             scheduled, sessionPromiseRef, scriptProcessorRef,
                             mediaStreamSourceRef>>
         ELSE /\ stopSteps' = StopSteps
              /\ inputAudioContextRef' = [inputAudioContextRef EXCEPT !.state = "closed"]
              /\ outputAudioContextRef' = [outputAudioContextRef EXCEPT !.state = "closed"]
              /\ IF outputAudioContextRef.state # "closed"
                   THEN /\ scheduled' = StopSources(scheduled, sourcesRef)
                        /\ sourcesRef' = {}
                   ELSE UNCHANGED <<scheduled, sourcesRef>>
              /\ liveCalls' = RequestClose(calls, sessionPromiseRef)
              /\ scriptProcessorRef' = Null
              /\ mediaStreamSourceRef' = Null
              /\ sessionPromiseRef' = Null

\* the Stop button (shown while isLive)
StopConversation ==
    /\ isLive /\ decoding = <<>>
    /\ stopConversation(liveCalls)
    /\ UNCHANGED <<storeVars, genVars, now, loaded, apiKey, received,
                   transcriptions, error, nextStartTimeRef, decoding, toolCalls,
                   toolResponses, currentTime, interruption>>

-----------------------------------------------------------------------------
(* LiveChatView: startConversation and the session callbacks *)

\* startConversation up to await getUserMedia({ audio: true })
StartConversation ==
    /\ ~isLive /\ decoding = <<>>
    /\ Len(liveCalls) < MaxLiveCalls
    /\ isLive' = TRUE
    /\ error' = NoError
    /\ transcriptions' = << Entry("start", SYSTEM, Connecting, TRUE) >>
    /\ liveCalls' = Append(liveCalls,
                      [pc |-> "mic", cam |-> isCameraOn, closeRequested |-> FALSE])
    /\ UNCHANGED <<storeVars, genVars, now, loaded, apiKey, received,
                   isCameraOn, sessionPromiseRef, streamRef, inputAudioContextRef,
                   outputAudioContextRef, scriptProcessorRef, mediaStreamSourceRef,
                   sourcesRef, nextStartTimeRef, frameIntervalRef, streams, decoding,
                   toolCalls, toolResponses, scheduled, currentTime, stopSteps, interruption>>

\* getUserMedia rejects: the catch of startConversation
MicDenied(c) ==
    /\ liveCalls[c].pc = "mic" /\ decoding = <<>>
    /\ liveCalls' = [liveCalls EXCEPT ![c].pc = "failed"]
    /\ error' = MicError
    /\ isLive' = FALSE
    /\ UNCHANGED <<storeVars, genVars, now, loaded, apiKey, received,
                   transcriptions, isCameraOn, sessionPromiseRef, streamRef,
                   inputAudioContextRef, outputAudioContextRef, scriptProcessorRef,
                   mediaStreamSourceRef, sourcesRef, nextStartTimeRef, frameIntervalRef,
                   streams, decoding, toolCalls, toolResponses, scheduled, currentTime,
                   stopSteps, interruption>>

\* getUserMedia resolves: the rest of startConversation.  srcObject is never
\* set (see StartCameraGranted), so no camera track is added to the stream;
\* liveConnect throws when the API key is missing.
MicGranted(c) ==
    /\ liveCalls[c].pc = "mic" /\ decoding = <<>>
    /\ Len(streams) < MaxStreams
    /\ streams' = Append(streams, [audio |-> "live", video |-> "none"])
    /\ streamRef' = Len(streams) + 1
    /\ inputAudioContextRef' = [id |-> c, state |-> "running"]
    /\ outputAudioContextRef' = [id |-> c, state |-> "running"]
    /\ currentTime' = 0
    /\ interruption' = NoInterruption
    /\ nextStartTimeRef' = 0
    /\ IF apiKey
         THEN /\ sessionPromiseRef' = c
              /\ liveCalls' = [liveCalls EXCEPT ![c].pc = "connecting"]
              /\ UNCHANGED <<isLive, error>>
         ELSE /\ liveCalls' = [liveCalls EXCEPT ![c].pc = "failed"]
              /\ error' = MicError
              /\ isLive' = FALSE
              /\ UNCHANGED sessionPromiseRef
    /\ UNCHANGED <<storeVars, genVars, now, loaded, apiKey, received,
                   transcriptions, isCameraOn, scriptProcessorRef, mediaStreamSourceRef,
                   sourcesRef, frameIntervalRef, decoding, toolCalls, toolResponses,
                   scheduled, stopSteps>>

\* callbacks.onopen of live call c.  createMediaStreamSource throws for a
\* null stream and for a stream without an audio track, before any ref is set.
\* isCameraOn in the frame-capture test is the value the call captured; the
\* video element exists while the latest render has isCameraOn.
OnOpen(c) ==
    /\ liveCalls[c].pc = "connecting" /\ decoding = <<>>
    /\ liveCalls' = [liveCalls EXCEPT
                       ![c].pc = IF liveCalls[c].closeRequested THEN "closing" ELSE "open"]
    /\ transcriptions' = [i \in 1..Len(transcriptions) |->
                             IF transcriptions[i].id = "start"
                                 THEN [transcriptions[i] EXCEPT !.text = ConnectionOpen]
                                 ELSE transcriptions[i]]
    /\ IF streamRef = Null \/ streams[streamRef].audio = "none"
         THEN UNCHANGED <<mediaStreamSourceRef, scriptProcessorRef, frameIntervalRef>>
         ELSE /\ mediaStreamSourceRef' = c
              /\ scriptProcessorRef' = c
              /\ frameIntervalRef' = IF liveCalls[c].cam /\ isCameraOn THEN 1 ELSE frameIntervalRef
    /\ UNCHANGED <<storeVars, genVars, now, loaded, apiKey, received,
                   isLive, error, isCameraOn, sessionPromiseRef, streamRef,
                   inputAudioContextRef, outputAudioContextRef, sourcesRef,
                   nextStartTimeRef, streams, decoding, toolCalls, toolResponses,
                   scheduled, currentTime, stopSteps, interruption>>

\* callbacks.onclose of live call c
OnClose(c) ==
    /\ liveCalls[c].pc \in {"connecting", "open", "closing"} /\ decoding = <<>>
    /\ stopConversation([liveCalls EXCEPT ![c].pc = "closed"])
    /\ UNCHANGED <<storeVars, genVars, now, loaded, apiKey, received,
                   transcriptions, error, nextStartTimeRef, decoding, toolCalls,
                   toolResponses, currentTime, interruption>>

\* callbacks.onerror of live call c; the socket's close event follows
OnError(c) ==
    /\ liveCalls[c].pc \in {"connecting", "open"} /\ decoding = <<>>
    /\ error' = ConnectionError
    /\ stopConversation([liveCalls EXCEPT ![c].pc = "closing"])
    /\ UNCHANGED <<storeVars, genVars, now, loaded, apiKey, received,
                   transcriptions, nextStartTimeRef, decoding, toolCalls,
                   toolResponses, currentTime, interruption>>

-----------------------------------------------------------------------------
(* LiveChatView: onmessage *)

\* the timers of the for loop over functionCalls
NewToolCalls(c, fcs) ==
    [i \in 1..Len(fcs) |-> [id |-> fcs[i].id, name |-> fcs[i].name, call |-> c, fired |-> FALSE]]

\* the transcript the message leaves stays within the bounds of the model
WithinTranscriptBounds(t) ==
    /\ Len(t) <= MaxEntries
    /\ \A i \in 1..Len(t) : Len(t[i].text) <= MaxTextLen

Cursor_Kept(cursor, clock) == cursor

\* Math.max(nextStartTimeRef.current, outputAudioContextRef.current.currentTime)
Cursor(cursor, clock) == Max(cursor, clock)

\* nextStartTimeRef.current = 0
Interrupt(cursor) == 0

\* callbacks.onmessage of live call c, up to await decodeAudioData or, for a
\* message without audio, to its end
OnMessage(c, m) ==
    /\ liveCalls[c].pc \in {"open", "closing"}
    /\ received < MaxReceived
    /\ received' = received + 1
    /\ WithinTranscriptBounds(TranscriptAfter(transcriptions, m))
    /\ Len(toolCalls) + Len(m.functionCalls) <= MaxToolCalls
    /\ m.audio > 0 => Len(scheduled) + Len(decoding) < MaxAudio
    /\ transcriptions' = TranscriptAfter(transcriptions, m)
    /\ toolCalls' = toolCalls \o NewToolCalls(c, m.functionCalls)
    /\ IF m.audio > 0 /\ outputAudioContextRef.state # "null"
         THEN /\ nextStartTimeRef' = Cursor(nextStartTimeRef, currentTime)
              /\ decoding' = Append(decoding,
                    [ duration    |-> m.audio,
                      interrupted |-> m.interrupted,
                      \* for the properties: the first chunk to arrive after an
                      \* interrupted message was handled
                      first       |-> interruption.fresh,
                      \* for the properties: an interrupted message was handled
                      \* while this chunk was suspended at the await
                      stale       |-> FALSE ])
              /\ interruption' = [interruption EXCEPT !.fresh = FALSE]
              /\ UNCHANGED <<sourcesRef, scheduled>>
         ELSE /\ decoding' = IF m.interrupted
                              THEN [k \in 1..Len(decoding) |-> [decoding[k] EXCEPT !.stale = TRUE]]
                              ELSE decoding
              /\ IF m.interrupted
                   THEN /\ scheduled' = StopSources(scheduled, sourcesRef)
                        /\ sourcesRef' = {}
                        /\ nextStartTimeRef' = Interrupt(nextStartTimeRef)
                        /\ interruption' = [seen |-> TRUE, fresh |-> TRUE]
                   ELSE UNCHANGED <<sourcesRef, scheduled, nextStartTimeRef, interruption>>
    /\ UNCHANGED <<storeVars, genVars, now, loaded, apiKey,
                   isLive, error, isCameraOn, sessionPromiseRef, streamRef,
                   inputAudioContextRef, outputAudioContextRef, scriptProcessorRef,
                   mediaStreamSourceRef, frameIntervalRef, streams, liveCalls,
                   toolResponses, currentTime, stopSteps>>

\* The rest of the oldest suspended onmessage call.  decodeAudioData awaits
\* nothing, so the call resumes in a microtask: only other onmessage calls
\* can run in between (every other live action waits for decoding = <<>>).
\* A start time in the past makes the source start at once.
DecodeDone ==
    /\ decoding # <<>>
    /\ LET d    == Head(decoding)
           k    == Len(scheduled) + 1
           src  == [ when     |-> nextStartTimeRef,
                     start    |-> Max(nextStartTimeRef, currentTime),
                     duration |-> d.duration,
                     ctx      |-> outputAudioContextRef.id,
                     stopped  |-> FALSE ]
       IN /\ decoding' = Tail(decoding)
          /\ IF d.interrupted
               THEN /\ scheduled' = StopSources(Append(scheduled, src), sourcesRef \cup {k})
                    /\ sourcesRef' = {}
                    /\ nextStartTimeRef' = Interrupt(nextStartTimeRef + d.duration)
                    /\ interruption' = [seen |-> TRUE, fresh |-> TRUE]
               ELSE /\ scheduled' = Append(scheduled, src)
                    /\ sourcesRef' = sourcesRef \cup {k}
                    /\ nextStartTimeRef' = nextStartTimeRef + d.duration
                    /\ UNCHANGED interruption
    /\ UNCHANGED <<storeVars, genVars, now, loaded, apiKey, received,
                   isLive, transcriptions, error, isCameraOn, sessionPromiseRef, streamRef,
                   inputAudioContextRef, outputAudioContextRef, scriptProcessorRef,
                   mediaStreamSourceRef, frameIntervalRef, streams, liveCalls,
                   toolCalls, toolResponses, currentTime, stopSteps>>

\* the 'ended' listener of a source that played to its end or was stopped
SourceEnded(k) ==
    /\ k \in sourcesRef /\ decoding = <<>>
    /\ scheduled[k].stopped \/ scheduled[k].start + scheduled[k].duration <= currentTime
    /\ sourcesRef' = sourcesRef \ {k}
    /\ UNCHANGED <<storeVars, genVars, now, loaded, apiKey, received,
                   isLive, transcriptions, error, isCameraOn, sessionPromiseRef, streamRef,
                   inputAudioContextRef, outputAudioContextRef, scriptProcessorRef,
                   mediaStreamSourceRef, nextStartTimeRef, frameIntervalRef, streams,
                   liveCalls, decoding, toolCalls, toolResponses, scheduled, currentTime,
                   stopSteps, interruption>>

\* the audio clock of the running output context advances
AudioTick ==
    /\ decoding = <<>>
    /\ outputAudioContextRef.state = "running"
    /\ currentTime < MaxAudioTime
    /\ currentTime' = currentTime + 1
    /\ UNCHANGED <<storeVars, genVars, now, loaded, apiKey, received,
                   isLive, transcriptions, error, isCameraOn, sessionPromiseRef, streamRef,
                   inputAudioContextRef, outputAudioContextRef, scriptProcessorRef,
                   mediaStreamSourceRef, sourcesRef, nextStartTimeRef, frameIntervalRef,
                   streams, liveCalls, decoding, toolCalls, toolResponses, scheduled,
                   stopSteps, interruption>>

\* the setTimeout(…, 1500) callback of the oldest function call not yet
\* answered; the response goes to whatever sessionPromiseRef holds now
ToolTimerFire(i) ==
    /\ i \in 1..Len(toolCalls) /\ decoding = <<>>
    /\ ~toolCalls[i].fired
    /\ \A j \in 1..(i-1) : toolCalls[j].fired
    /\ Len(transcriptions) < MaxEntries + MaxToolCalls
    /\ toolCalls' = [toolCalls EXCEPT ![i].fired = TRUE]
    /\ transcriptions' = addOrUpdateTranscription(transcriptions, TOOL, Executed(toolCalls[i]), TRUE)
    /\ toolResponses' =
          IF sessionPromiseRef # Null
          THEN Append(toolResponses, [id |-> toolCalls[i].id, name |-> toolCalls[i].name,
                                      result |-> Executed(toolCalls[i]),
                                      to |-> sessionPromiseRef])
          ELSE toolResponses
    /\ UNCHANGED <<storeVars, genVars, now, loaded, apiKey, received,
                   isLive, error, isCameraOn, sessionPromiseRef, streamRef,
                   inputAudioContextRef, outputAudioContextRef, scriptProcessorRef,
                   mediaStreamSourceRef, sourcesRef, nextStartTimeRef, frameIntervalRef,
                   streams, liveCalls, decoding, scheduled, currentTime, stopSteps,
                   interruption>>

InitLive ==
    /\ isLive = FALSE
    /\ transcriptions = <<>>
    /\ error = NoError
    /\ isCameraOn = FALSE
    /\ sessionPromiseRef = Null
    /\ streamRef = Null
    /\ inputAudioContextRef = NoContext
    /\ outputAudioContextRef = NoContext
    /\ scriptProcessorRef = Null
    /\ mediaStreamSourceRef = Null
    /\ sourcesRef = {}
    /\ nextStartTimeRef = 0
    /\ frameIntervalRef = Null
    /\ streams = <<>>
    /\ liveCalls = <<>>
    /\ decoding = <<>>
    /\ toolCalls = <<>>
    /\ toolResponses = <<>>
    /\ scheduled = <<>>
    /\ currentTime = 0
    /\ stopSteps = {}
    /\ interruption = NoInterruption
    /\ received = 0

-----------------------------------------------------------------------------
(* Clock *)

Tick ==
    /\ now < StartTime + MaxTicks
    /\ now' = now + 1
    /\ UNCHANGED <<storeVars, genVars, loaded, apiKey, liveVars>>

-----------------------------------------------------------------------------

Init ==
    /\ chatSessions = <<>>
    /\ folders = <<>>
    /\ activeChatId = Null
    /\ isLoading = FALSE
    /\ abortControllerRef = Null
    /\ gens = <<>>
    /\ timers = <<>>
    /\ now = StartTime
    /\ loaded = FALSE
    /\ apiKey \in BOOLEAN
    /\ InitLive

\* The session list alone: load, new chat, select, delete
NextSessions ==
    \/ LoadEffect
    \/ Tick
    \/ HandleNewChat
    \/ \E id \in Ids(chatSessions) : SelectChat(id)
    \/ \E id \in Ids(chatSessions), confirmed \in BOOLEAN : HandleDeleteChat(id, confirmed)
    \/ \E id \in Ids(chatSessions), newTitle \in Titles : HandleRenameChat(id, newTitle)
    \/ \E id \in Ids(chatSessions) : HandleTogglePinChat(id)

\* The folders of the sidebar, over the stored sessions
NextFolders ==
    \/ LoadEffect
    \/ Tick
    \/ \E id \in Ids(chatSessions), confirmed \in BOOLEAN : HandleDeleteChat(id, confirmed)
    \/ \E name \in FolderNames : HandleCreateFolder(name)
    \/ \E f \in Ids(folders) : HandleDeleteFolder(f)
    \/ \E f \in Ids(folders), name \in FolderNames : HandleRenameFolder(f, name)
    \/ \E f \in Ids(folders) : HandleToggleFolder(f)
    \/ \E c \in Ids(chatSessions), f \in Ids(folders) \cup {Null} : HandleMoveChatToFolder(c, f)

\* The chat view: sessions, generations and their deferred starts
NextChat ==
    \/ LoadEffect
    \/ Tick
    \/ \E id \in Ids(chatSessions) : SelectChat(id)
    \/ \E id \in Ids(chatSessions) : HandleDeleteChat(id, TRUE)
    \/ \E prompt \in Prompts : HandleSend(prompt)
    \/ \E k \in 1..(MaxMessages + 2), c \in NewContents : HandleEditMessage(k, c)
    \/ HandleRegenerate
    \/ TimerFire
    \/ HandleStopGenerating
    \/ \E g \in 1..Len(gens) : StreamOpen(g)
    \/ \E g \in 1..Len(gens) : StreamOpenFail(g)
    \/ \E g \in 1..Len(gens), chunk \in Packets : StreamChunk(g, chunk)
    \/ \E g \in 1..Len(gens) : StreamEnd(g)
    \/ \E g \in 1..Len(gens) : StreamError(g)

Spec == Init /\ [][NextChat]_vars

InitStore == Init /\ apiKey = TRUE

SpecSessions == InitStore /\ [][NextSessions]_vars

SpecFolders == InitStore /\ [][NextFolders]_vars

\* The mount effect when localStorage holds nothing: one new session, no folder
LoadEmptyStore ==
    /\ LoadEffect
    /\ chatSessions' = PrependChat(chatSessions, now)
    /\ folders' = <<>>

\* folder ids a move can name: none, or any id a folder has or had
FolderIdInputs == {Null} \cup (StartTime..(StartTime + MaxTicks))

\* Folder membership from an empty store: new chat, delete chat, create
\* folder, delete folder, move chat
NextMembers ==
    \/ LoadEmptyStore
    \/ Tick
    \/ HandleNewChat
    \/ \E id \in Ids(chatSessions) : HandleDeleteChat(id, TRUE)
    \/ \E name \in FolderNames : HandleCreateFolder(name)
    \/ \E f \in Ids(folders) : HandleDeleteFolder(f)
    \/ \E c \in Ids(chatSessions), f \in FolderIdInputs : HandleMoveChatToFolder(c, f)

SpecMembers == InitStore /\ [][NextMembers]_vars

\* The live view: camera, conversation, session callbacks, function calls
NextLive ==
    \/ StartCameraGranted
    \/ StartCameraDenied
    \/ StopCamera
    \/ StartConversation
    \/ StopConversation
    \/ \E c \in 1..Len(liveCalls) : MicDenied(c)
    \/ \E c \in 1..Len(liveCalls) : MicGranted(c)
    \/ \E c \in 1..Len(liveCalls) : OnOpen(c)
    \/ \E c \in 1..Len(liveCalls) : OnClose(c)
    \/ \E c \in 1..Len(liveCalls) : OnError(c)
    \/ \E c \in 1..Len(liveCalls), m \in ToolMessages : OnMessage(c, m)
    \/ \E i \in 1..Len(toolCalls) : ToolTimerFire(i)

SpecLive == Init /\ [][NextLive]_vars

\* The transcript of live conversations
NextTranscript ==
    \/ StartConversation
    \/ StopConversation
    \/ \E c \in 1..Len(liveCalls) : MicGranted(c)
    \/ \E c \in 1..Len(liveCalls) : OnOpen(c)
    \/ \E c \in 1..Len(liveCalls) : OnClose(c)
    \/ \E c \in 1..Len(liveCalls), m \in TranscriptMessages \cup ToolMessages : OnMessage(c, m)
    \/ \E i \in 1..Len(toolCalls) : ToolTimerFire(i)

SpecTranscript == InitStore /\ [][NextTranscript]_vars

\* The playback of the audio of live conversations
NextPlayback ==
    \/ StartConversation
    \/ StopConversation
    \/ \E c \in 1..Len(liveCalls) : MicGranted(c)
    \/ \E c \in 1..Len(liveCalls) : OnOpen(c)
    \/ \E c \in 1..Len(liveCalls) : OnClose(c)
    \/ \E c \in 1..Len(liveCalls), m \in AudioMessages : OnMessage(c, m)
    \/ DecodeDone
    \/ \E k \in sourcesRef : SourceEnded(k)
    \/ AudioTick

SpecPlayback == InitStore /\ [][NextPlayback]_vars

\* New sessions, selection and generations by Send, over the stored sessions
NextIsolation ==
    \/ LoadEffect
    \/ Tick
    \/ HandleNewChat
    \/ \E id \in Ids(chatSessions) : SelectChat(id)
    \/ \E prompt \in Prompts : HandleSend(prompt)
    \/ HandleStopGenerating
    \/ \E g \in 1..Len(gens) : StreamOpen(g)
    \/ \E g \in 1..Len(gens) : StreamOpenFail(g)
    \/ \E g \in 1..Len(gens), chunk \in Packets : StreamChunk(g, chunk)
    \/ \E g \in 1..Len(gens) : StreamEnd(g)
    \/ \E g \in 1..Len(gens) : StreamError(g)

SpecIsolation == InitStore /\ [][NextIsolation]_vars

-----------------------------------------------------------------------------
(* Generation: properties *)

\* the messages a generation's patches address: those with its placeholder's
\* id, in the sessions with the id its closure captured
PlaceholderMsgs(sessions, g) ==
    { sessions[i].messages[k] :
        <<i, k>> \in { <<i, k>> \in (1..Len(sessions)) \X (1..(MaxMessages + 2)) :
                         /\ sessions[i].id = g.chatId
                         /\ k <= Len(sessions[i].messages)
                         /\ sessions[i].messages[k].id = g.msgId } }

IsErrorContent(content) ==
    content \in { ErrorContent(FailedToGetResponse), ErrorContent(StreamFailure) }

\* C1: the accumulator of every generation always equals the concatenation,
\* in arrival order, of the texts of the packets it has consumed; the step
\* that applies a packet with text leaves the placeholder's content equal to
\* that concatenation; and the step that ends the stream (normally or on an
\* observed abort) leaves the content as it is.
C1_ChunksAppliedInOrder ==
    [][ \A g \in 1..Len(gens) :
          /\ gens'[g].fullResponse = Flatten(gens'[g].chunks)
          /\ \A chunk \in Packets :
               (StreamChunk(g, chunk) /\ ~gens[g].aborted /\ chunk.text # <<>>) =>
                  /\ gens'[g].chunks = Append(gens[g].chunks, chunk.text)
                  /\ \A m \in PlaceholderMsgs(chatSessions', gens[g]) :
                        m.content = Flatten(gens'[g].chunks)
          /\ (gens[g].pc = "streaming" /\ gens'[g].pc \in {"completed", "cancelled"}) =>
                { m.content : m \in PlaceholderMsgs(chatSessions', gens[g]) }
                   = { m.content : m \in PlaceholderMsgs(chatSessions, gens[g]) }
      ]_vars

\* C1 witness: a generation whose stream ended after two packets with
\* different texts, its placeholder holding both texts in arrival order.
C1_Witness ==
    \E g \in 1..Len(gens) :
        /\ gens[g].pc = "completed"
        /\ gens[g].chunks = << <<"b">>, <<"a">> >>
        /\ \E m \in PlaceholderMsgs(chatSessions, gens[g]) : m.content = <<"b", "a">>

\* C2 (as claimed): the step in which the stream wrapper observes the abort
\* changes neither the content nor the grounding sources of the placeholder,
\* whose content is the concatenation of the packets applied before the stop.
C2_NoMutationOnceAbortObserved ==
    [][ \A g \in 1..Len(gens) :
          (gens[g].pc = "streaming" /\ gens[g].aborted /\ gens'[g].pc = "cancelled") =>
             /\ PlaceholderMsgs(chatSessions', gens[g]) = PlaceholderMsgs(chatSessions, gens[g])
             /\ \A m \in PlaceholderMsgs(chatSessions', gens[g]) :
                   m.content = Flatten(gens[g].chunks)
      ]_vars

\* C3 (as claimed): the step in which a generation ends with a failure
\* leaves its placeholder's content equal to the error block, and the step
\* in which it ends by cancellation leaves the content as it was.
C3_FailureWritesErrorBlock ==
    [][ \A g \in 1..Len(gens') :
          /\ ( /\ gens'[g].pc \in {"failed", "rejected"}
               /\ (g > Len(gens) \/ InFlight(gens[g])) ) =>
                \A m \in PlaceholderMsgs(chatSessions', gens'[g]) : IsErrorContent(m.content)
          /\ (g <= Len(gens) /\ InFlight(gens[g]) /\ gens'[g].pc = "cancelled") =>
                { m.content : m \in PlaceholderMsgs(chatSessions', gens[g]) }
                   = { m.content : m \in PlaceholderMsgs(chatSessions, gens[g]) }
      ]_vars

\* C4 (as claimed): no two generations of the same session are in flight.
C4_OneGenerationPerSession ==
    \A g, h \in 1..Len(gens) :
        (g # h /\ gens[g].chatId = gens[h].chatId) => ~(InFlight(gens[g]) /\ InFlight(gens[h]))

\* C5 (as claimed, its safety part): once every submitPrompt call that set
\* the busy flag has ended, isLoading is false and the abort controller
\* reference is cleared.
C5_SettledMeansIdle ==
    (\A g \in 1..Len(gens) : Settled(gens[g])) =>
        (isLoading = FALSE /\ abortControllerRef = Null)

-----------------------------------------------------------------------------
(* Session store: properties *)

\* number of places (folder, position) at which chat id c is listed
Occurrences(fs, c) ==
    Cardinality({ <<i, k>> \in (1..Len(fs)) \X (1..MaxSessions + 1) :
                     k <= Len(fs[i].chatIds) /\ fs[i].chatIds[k] = c })

Foldered(fs) == UNION { {fs[i].chatIds[k] : k \in 1..Len(fs[i].chatIds)} : i \in 1..Len(fs) }

IsDefaultChat(s) ==
    /\ s.title = NewConversation
    /\ s.messages = <<>>
    /\ s.systemPrompt = defaultSystemPrompt
    /\ s.temperature = 7
    /\ s.useGoogleSearch = FALSE
    /\ s.pinned = FALSE
    /\ s.model = "gemini-2.5-flash"

\* C6: handleDeleteChat on the active session: if a session with another id
\* remains, the active id afterwards is the id of a remaining session (one
\* that was in the store, is still there, and is not the deleted one); if
\* none remains, the store afterwards holds exactly one session, created by
\* this step with default settings and no messages, and it is the active one.
C6_DeleteActiveReselects ==
    [][ \A c \in Ids(chatSessions) :
          (HandleDeleteChat(c, TRUE) /\ activeChatId = c) =>
             IF \E i \in 1..Len(chatSessions) : chatSessions[i].id # c
             THEN /\ activeChatId' # c
                  /\ activeChatId' \in Ids(chatSessions)
                  /\ activeChatId' \in Ids(chatSessions')
                  /\ \A i \in 1..Len(chatSessions') : chatSessions'[i].id # c
             ELSE /\ Len(chatSessions') = 1
                  /\ IsDefaultChat(chatSessions'[1])
                  /\ chatSessions'[1].id = now
                  /\ activeChatId' = chatSessions'[1].id
      ]_vars

\* C6 witness: the stored two-session store (B, A with A active) after A was
\* deleted (its folder entry is gone too) and B became active.
C6_Witness ==
    /\ chatSessions = <<SavedChatB>>
    /\ activeChatId = SavedChatB.id
    /\ Len(folders) = 1 /\ folders[1].id = SavedFolder.id /\ folders[1].chatIds = <<>>

\* C7: whenever the session list is non-empty, the active session id is
\* non-null and is the id of a session in the list.
C7_ActiveIsInStore ==
    chatSessions # <<>> =>
        /\ activeChatId # Null
        /\ activeChatId \in Ids(chatSessions)

\* C7 witness: two sessions, the head created by new-chat at mount time or
\* later, and the active one is the older second session (selected again
\* after the new chat, or left active by a delete).
C7_Witness ==
    /\ loaded
    /\ Len(chatSessions) = 2
    /\ chatSessions[1].id >= StartTime
    /\ activeChatId = chatSessions[2].id
    /\ activeChatId # chatSessions[1].id

\* C8 (as claimed): session identifiers are pairwise distinct in the store.
C8_UniqueSessionIds ==
    \A i, j \in 1..Len(chatSessions) : i # j => chatSessions[i].id # chatSessions[j].id

\* C9 (as claimed): every session id is listed at most once over all
\* folders' member lists.
C9_AtMostOneFolder ==
    \A c \in Foldered(folders) : Occurrences(folders, c) <= 1

\* a step of one of the five folder handlers
FolderStep ==
    \/ \E name \in FolderNames : HandleCreateFolder(name)
    \/ \E f \in Ids(folders) : HandleDeleteFolder(f)
    \/ \E f \in Ids(folders), name \in FolderNames : HandleRenameFolder(f, name)
    \/ \E f \in Ids(folders) : HandleToggleFolder(f)
    \/ \E c \in Ids(chatSessions), f \in Ids(folders) \cup {Null} : HandleMoveChatToFolder(c, f)

\* the sessions listed in the folders with the given id
MembersOf(fs, folderId) ==
    UNION { IF fs[i].id = folderId
            THEN {fs[i].chatIds[k] : k \in 1..Len(fs[i].chatIds)} ELSE {} : i \in 1..Len(fs) }

\* C10: a folder operation leaves the session list and the active id as they
\* were; after deleting a folder every former member is still a session of
\* the store and is a member of no folder.
C10_FolderOpsKeepSessions ==
    [][ /\ FolderStep => (chatSessions' = chatSessions /\ activeChatId' = activeChatId)
        /\ \A f \in Ids(folders) :
             HandleDeleteFolder(f) =>
                \A c \in MembersOf(folders, f) :
                   /\ (c \in Ids(chatSessions) => c \in Ids(chatSessions'))
                   /\ c \notin Foldered(folders')
      ]_vars

\* C10 witness: the stored store whose folder held session A, after the
\* folder was deleted: both sessions are there, A is in no folder.
C10_Witness ==
    /\ chatSessions = <<SavedChatB, SavedChatA>>
    /\ folders = <<>>
    /\ activeChatId = SavedChatA.id

-----------------------------------------------------------------------------
(* Live view: properties *)

LastEntry(t) == t[Len(t)]

\* the message carries exactly one transcription, of this role and text
Carries(m, role, text) ==
    /\ m.functionCalls = <<>>
    /\ \/ /\ role = USER /\ m.inputTranscription.present /\ ~m.outputTranscription.present
          /\ text = m.inputTranscription.text
       \/ /\ role = MODEL /\ m.outputTranscription.present /\ ~m.inputTranscription.present
          /\ text = m.outputTranscription.text

TranscriptTexts == { <<"hel">>, <<"lo">>, <<" ">>, <<"hi">> }

\* C11: a transcription event whose role is that of the last entry, arriving
\* while that entry is not final, adds no entry: it appends its text to the
\* last entry, and leaves the text of every earlier entry as it was; the
\* entries become final exactly if the same message completes the turn.
C11_PartialsMergeIntoLastEntry ==
    [][ \A c \in 1..Len(liveCalls), m \in TranscriptMessages,
           role \in {USER, MODEL}, text \in TranscriptTexts :
          ( /\ OnMessage(c, m) /\ Carries(m, role, text)
            /\ transcriptions # <<>>
            /\ LastEntry(transcriptions).role = role
            /\ ~LastEntry(transcriptions).isFinal ) =>
             /\ Len(transcriptions') = Len(transcriptions)
             /\ \A i \in 1..(Len(transcriptions) - 1) :
                   transcriptions'[i] =
                      [transcriptions[i] EXCEPT !.isFinal = @ \/ m.turnComplete]
             /\ LastEntry(transcriptions').role = role
             /\ LastEntry(transcriptions').text = LastEntry(transcriptions).text \o text
             /\ LastEntry(transcriptions').isFinal = m.turnComplete
      ]_vars

\* C11 witness: user "hel", user "lo" and a completed turn left one final
\* user entry "hello" after the system entry.
C11_Witness ==
    /\ Len(transcriptions) = 2
    /\ transcriptions[1].role = SYSTEM
    /\ transcriptions[2] = Entry("date", USER, <<"hel", "lo">>, TRUE)

\* C12 (as claimed): the step that handles a message with turnComplete leaves
\* every entry final, and a transcription event that arrives when the last
\* entry is final (or there is none) adds one entry with its role and text
\* after the existing entries, which keep their role and text.
C12_EventAfterTurnCompleteStartsEntry ==
    [][ \A c \in 1..Len(liveCalls), m \in TranscriptMessages \cup ToolMessages :
          OnMessage(c, m) =>
            /\ m.turnComplete =>
                 \A i \in 1..Len(transcriptions') : transcriptions'[i].isFinal
            /\ \A role \in {USER, MODEL}, text \in TranscriptTexts :
                 ( /\ Carries(m, role, text)
                   /\ (transcriptions = <<>> \/ LastEntry(transcriptions).isFinal) ) =>
                    /\ Len(transcriptions') = Len(transcriptions) + 1
                    /\ \A i \in 1..Len(transcriptions) :
                          transcriptions'[i] =
                             [transcriptions[i] EXCEPT !.isFinal = @ \/ m.turnComplete]
                    /\ LastEntry(transcriptions').role = role
                    /\ LastEntry(transcriptions').text = text
      ]_vars

\* C12 (amended): the step that handles a message with turnComplete leaves
\* every entry final; a transcription event that arrives when the last entry
\* is final (or there is none) leaves the role and text of the existing
\* entries as they were, and adds one entry with its role and text after them
\* unless its text is only white space, in which case it adds nothing.
C12_TurnCompleteFinalizesAll ==
    [][ \A c \in 1..Len(liveCalls), m \in TranscriptMessages \cup ToolMessages :
          OnMessage(c, m) =>
            /\ m.turnComplete =>
                 \A i \in 1..Len(transcriptions') : transcriptions'[i].isFinal
            /\ \A role \in {USER, MODEL}, text \in TranscriptTexts :
                 ( /\ Carries(m, role, text)
                   /\ (transcriptions = <<>> \/ LastEntry(transcriptions).isFinal) ) =>
                    /\ \A i \in 1..Len(transcriptions) :
                          transcriptions'[i] =
                             [transcriptions[i] EXCEPT !.isFinal = @ \/ m.turnComplete]
                    /\ IF IsBlank(text)
                         THEN Len(transcriptions') = Len(transcriptions)
                         ELSE /\ Len(transcriptions') = Len(transcriptions) + 1
                              /\ LastEntry(transcriptions').role = role
                              /\ LastEntry(transcriptions').text = text
                              /\ LastEntry(transcriptions').isFinal = m.turnComplete
      ]_vars

\* C12 witness: user "hel" was finalized by a completed turn, and the user
\* event "lo" that came afterwards started an entry of its own.
C12_Witness ==
    /\ Len(transcriptions) = 3
    /\ transcriptions[2] = Entry("date", USER, <<"hel">>, TRUE)
    /\ transcriptions[3] = Entry("date", USER, <<"lo">>, FALSE)

\* sources started on the output context that is current
OnCurrentContext == { k \in 1..Len(scheduled) : scheduled[k].ctx = outputAudioContextRef.id }

EndOf(src) == src.start + src.duration

\* scheduled end of the chunk scheduled last on the current context, 0 if none
PreviousEnd ==
    IF OnCurrentContext = {} THEN 0
    ELSE EndOf(scheduled[CHOOSE k \in OnCurrentContext : \A j \in OnCurrentContext : j <= k])

\* C13: while no interrupted message was handled on the output context, the
\* step that starts a chunk starts it at the greater of the audio clock and
\* the scheduled end of the chunk scheduled before it, so it begins at or
\* after the end of every chunk scheduled before it, and exactly at the
\* previous chunk's end when that chunk is still playing.
C13_ChunksPlayBackToBack ==
    [][ ( /\ DecodeDone /\ ~interruption.seen /\ ~Head(decoding).interrupted ) =>
          LET new == scheduled'[Len(scheduled')]
          IN  /\ Len(scheduled') = Len(scheduled) + 1
              /\ new.duration = Head(decoding).duration
              /\ new.start = Max(currentTime, PreviousEnd)
              /\ \A k \in OnCurrentContext : EndOf(scheduled[k]) <= new.start
              /\ PreviousEnd > currentTime => new.start = PreviousEnd
      ]_vars

\* C13 witness: a chunk of duration 2 and then one of duration 1 arrived
\* without interruption; the second starts exactly 2 after the first's start,
\* while the first is still playing.
C13_Witness ==
    /\ Len(scheduled) = 2
    /\ ~interruption.seen
    /\ scheduled[1].ctx = scheduled[2].ctx
    /\ scheduled[1].duration = 2 /\ scheduled[2].duration = 1
    /\ ~scheduled[1].stopped /\ ~scheduled[2].stopped
    /\ scheduled[2].start = scheduled[1].start + 2
    /\ currentTime < scheduled[2].start

\* the step handles the interrupted flag of a message
HandlesInterrupt ==
    \/ \E c \in 1..Len(liveCalls), m \in AudioMessages :
          OnMessage(c, m) /\ m.interrupted /\ m.audio = 0
    \/ DecodeDone /\ Head(decoding).interrupted

\* C14 (as claimed): the step that handles an interrupted message stops every
\* source of the set, empties the set and sets the cursor to 0; and the first
\* chunk to arrive after that is started at the audio-clock time.
C14_InterruptStopsAndResets ==
    [][ /\ HandlesInterrupt =>
             /\ \A k \in sourcesRef : scheduled'[k].stopped
             /\ sourcesRef' = {}
             /\ nextStartTimeRef' = 0
        /\ (DecodeDone /\ Head(decoding).first) =>
             scheduled'[Len(scheduled) + 1].start = currentTime
      ]_vars

AllTornDown ==
    /\ isLive = FALSE
    /\ streamRef = Null
    /\ scriptProcessorRef = Null
    /\ mediaStreamSourceRef = Null
    /\ sessionPromiseRef = Null
    /\ frameIntervalRef = Null

\* the step runs stopConversation: the Stop button, onclose or onerror
StopStep ==
    \/ StopConversation
    \/ \E c \in 1..Len(liveCalls) : OnClose(c) \/ OnError(c)

\* the order of the phases of a live call
PhaseOrder ==
    { <<"mic", "connecting">>, <<"mic", "failed">>, <<"connecting", "open">>,
      <<"connecting", "closing">>, <<"connecting", "closed">>, <<"open", "closing">>,
      <<"open", "closed">>, <<"closing", "closed">> }

\* C15: isLive becomes true, and a live call begins, only in a
\* startConversation step; a live call moves only forward through awaiting the
\* microphone, connecting, open, closing and closed (or failed, from the
\* microphone wait); and every step that runs stopConversation (Stop, onclose,
\* onerror) leaves isLive false, the stream, script processor, media source
\* and session promise references null and no frame interval running.
C15_LiveSessionLifecycle ==
    [][ /\ (~isLive /\ isLive') => StartConversation
        /\ Len(liveCalls') # Len(liveCalls) =>
             /\ StartConversation
             /\ Len(liveCalls') = Len(liveCalls) + 1
             /\ liveCalls'[Len(liveCalls')].pc = "mic"
        /\ \A c \in 1..Len(liveCalls) :
             liveCalls'[c].pc # liveCalls[c].pc =>
                <<liveCalls[c].pc, liveCalls'[c].pc>> \in PhaseOrder
        /\ StopStep => AllTornDown'
      ]_vars

\* C15 witness: the Stop button ended an open session: the session is
\* closing, the microphone track is stopped, both contexts are closed and
\* everything is torn down.
C15_Witness ==
    /\ AllTornDown
    /\ Len(liveCalls) = 1 /\ liveCalls[1].pc = "closing"
    /\ error = NoError
    /\ streams[1].audio = "stopped"
    /\ inputAudioContextRef.state = "closed" /\ outputAudioContextRef.state = "closed"

\* C16 (as claimed): every step that runs stopConversation reaches every
\* teardown step.
C16_EveryTeardownStepAttempted ==
    [][ StopStep => stopSteps' = StopSteps ]_vars

\* C17 (as claimed, its safety part): the step in which the delay of a
\* function call elapses sends exactly one tool response, with the call's id
\* and name and a success result, to the session that sent the call; no other
\* step sends a tool response.
C17_EveryCallAnswered ==
    [][ /\ \A i \in 1..Len(toolCalls) :
             ToolTimerFire(i) =>
                toolResponses' = Append(toolResponses,
                    [ id |-> toolCalls[i].id, name |-> toolCalls[i].name,
                      result |-> Executed(toolCalls[i]), to |-> toolCalls[i].call ])
        /\ toolResponses' # toolResponses => \E i \in 1..Len(toolCalls) : ToolTimerFire(i)
      ]_vars

-----------------------------------------------------------------------------
(* App: message patches and session isolation *)

\* the step applies a message patch of generation g (content, sources or
\* error content)
PatchStep(g) ==
    \/ StreamOpenFail(g)
    \/ \E chunk \in Packets : StreamChunk(g, chunk)
    \/ StreamEnd(g)
    \/ StreamError(g)

MessageIds(messages) == { messages[k].id : k \in 1..Len(messages) }

\* C18: every step that applies a message patch of a generation keeps the
\* sessions and, in every session, the number and order of the messages;
\* every message whose id is not the patched id keeps all its values, at most
\* one message changes where one message has the patched id, and a list that
\* does not hold the patched id (the placeholder was removed, or the session
\* is gone) is left unchanged.
C18_PatchTouchesOnlyItsMessage ==
    [][ \A g \in 1..Len(gens) :
          PatchStep(g) =>
            /\ Len(chatSessions') = Len(chatSessions)
            /\ \A i \in 1..Len(chatSessions) :
                 LET old == chatSessions[i].messages
                     new == chatSessions'[i].messages
                 IN  /\ Len(new) = Len(old)
                     /\ \A k \in 1..Len(old) :
                          /\ new[k].id = old[k].id
                          /\ old[k].id # gens[g].msgId => new[k] = old[k]
                     /\ Cardinality({ k \in 1..Len(old) : old[k].id = gens[g].msgId }) <= 1 =>
                           Cardinality({ k \in 1..Len(old) : new[k] # old[k] }) <= 1
                     /\ gens[g].msgId \notin MessageIds(old) => new = old
      ]_vars

\* C18 witness: a generation has applied a packet with text while its session
\* was in the store without the placeholder, and another has applied one
\* after its session was deleted.
C18_Witness ==
    /\ \E g \in 1..Len(gens) :
         /\ gens[g].chunks # <<>> /\ gens[g].fullResponse # <<>>
         /\ \E i \in 1..Len(chatSessions) :
              /\ chatSessions[i].id = gens[g].chatId
              /\ gens[g].msgId \notin MessageIds(chatSessions[i].messages)
    /\ \E g \in 1..Len(gens) :
         /\ gens[g].chunks # <<>> /\ gens[g].fullResponse # <<>>
         /\ ~HasChat(chatSessions, gens[g].chatId)

\* position of the session a generation was started in: the first with its id
SessionIndex(sessions, id) ==
    CHOOSE i \in 1..Len(sessions) :
        /\ sessions[i].id = id
        /\ \A j \in 1..(i-1) : sessions[j].id # id

\* the step is an update of generation g: its placeholder (g is new), a
\* content patch, the sources or the error block
UpdateOf(g) ==
    \/ /\ g = Len(gens) + 1 /\ Len(gens') = g
       /\ (TimerFire \/ \E prompt \in Prompts : HandleSend(prompt))
    \/ g <= Len(gens) /\ PatchStep(g)

\* C19 (as claimed): every update of a generation started in session S keeps
\* the sessions, leaves every other session as it was, and changes nothing of
\* S but its message list (and, in the handleSend step that starts it, the
\* title handleSend gives a session on its first message).
C19_GenerationTouchesOnlyItsSession ==
    [][ \A g \in 1..Len(gens') :
          (UpdateOf(g) /\ HasChat(chatSessions, gens'[g].chatId)) =>
            LET S == SessionIndex(chatSessions, gens'[g].chatId) IN
            /\ Len(chatSessions') = Len(chatSessions)
            /\ \A i \in 1..Len(chatSessions) :
                 IF i = S
                   THEN chatSessions'[i] =
                           [chatSessions[i] EXCEPT !.messages = chatSessions'[i].messages,
                                                   !.title = IF g > Len(gens)
                                                             THEN chatSessions'[i].title ELSE @]
                   ELSE chatSessions'[i] = chatSessions[i]
      ]_vars

\* C20 (as claimed): while a generation of another session is in flight and
\* the active session has none, a prompt can be submitted in the active
\* session (the loading flag that blocks submission is not set); and the
\* Stop button aborts only a generation of the active session.
C20_SessionsGenerateConcurrently ==
    [][ /\ ( /\ HasChat(chatSessions, activeChatId)
             /\ timers = <<>>
             /\ \E g \in 1..Len(gens) : InFlight(gens[g]) /\ gens[g].chatId # activeChatId
             /\ \A g \in 1..Len(gens) : InFlight(gens[g]) => gens[g].chatId # activeChatId )
           => ~isLoading
        /\ HandleStopGenerating =>
             \A g \in 1..Len(gens) :
                (gens'[g].aborted /\ ~gens[g].aborted) => gens[g].chatId = activeChatId
      ]_vars

-----------------------------------------------------------------------------
(* App: grounding sources, regeneration and history *)

\* the step changes the grounding sources of the message at position k of
\* session i
SourcesChange(i, k) ==
    /\ i <= Len(chatSessions') /\ chatSessions'[i].id = chatSessions[i].id
    /\ k <= Len(chatSessions[i].messages) /\ k <= Len(chatSessions'[i].messages)
    /\ chatSessions'[i].messages[k].id = chatSessions[i].messages[k].id
    /\ chatSessions'[i].messages[k].groundingSources
          # chatSessions[i].messages[k].groundingSources

\* C21 (as claimed): the grounding sources of a message change only in the
\* step in which the stream of the generation it is the placeholder of has
\* been consumed to its end; they were empty until then and become the
\* entries with a uri of the final packet's grounding chunks, in packet order;
\* and the end of a stream whose final packet has no grounding metadata
\* leaves them empty.
C21_SourcesSetOnceAtStreamEnd ==
    [][ /\ \A i \in 1..Len(chatSessions), k \in 1..(MaxMessages + 2) :
             SourcesChange(i, k) =>
                \E g \in 1..Len(gens) :
                   /\ gens[g].chatId = chatSessions[i].id
                   /\ gens[g].msgId = chatSessions[i].messages[k].id
                   /\ StreamEnd(g)
                   /\ gens[g].finalResponsePacket.hasGrounding
                   /\ chatSessions[i].messages[k].groundingSources = <<>>
                   /\ chatSessions'[i].messages[k].groundingSources
                         = Sources(gens[g].finalResponsePacket.groundingChunks)
        /\ \A g \in 1..Len(gens) :
             InFlight(gens[g]) =>
                \A m \in PlaceholderMsgs(chatSessions, gens[g]) : m.groundingSources = <<>>
      ]_vars

-----------------------------------------------------------------------------
(* Live view: permissions and resources *)

\* C22: the step in which the microphone permission is denied sets isLive to
\* false and an error message and calls no liveConnect (the session promise
\* reference is left alone); the call has failed and stays failed, so its
\* session is never connecting or open.  The step in which the camera
\* permission is denied leaves isCameraOn false and sets an error message.
C22_DeniedPermissionEndsStart ==
    [][ /\ \A c \in 1..Len(liveCalls) :
             /\ MicDenied(c) =>
                  /\ ~isLive' /\ error' # NoError
                  /\ sessionPromiseRef' = sessionPromiseRef
                  /\ liveCalls'[c].pc = "failed"
             /\ liveCalls[c].pc = "failed" => liveCalls'[c].pc = "failed"
        /\ StartCameraDenied => (~isCameraOn' /\ error' # NoError)
      ]_vars

\* C22 witness: the microphone was denied to the only start (no stream was
\* ever acquired, no session requested) and afterwards the camera was denied.
C22_Witness ==
    /\ Len(liveCalls) = 1 /\ liveCalls[1].pc = "failed"
    /\ streams = <<>> /\ sessionPromiseRef = Null
    /\ ~isLive /\ ~isCameraOn
    /\ error = CameraError

-----------------------------------------------------------------------------
(* App: initial load *)

\* the sessions the mount effect gets out of what storage holds
LoadedSessions(saved) == IF saved.kind = "ok" THEN saved.sessions ELSE <<>>

-----------------------------------------------------------------------------
(* Live view: what runs while isLive is false *)

\* a microphone track is live
MicCaptured == \E k \in 1..Len(streams) : streams[k].audio = "live"

\* the script processor (realtime audio) or the frame interval (realtime
\* images) is set up
InputSent == scriptProcessorRef # Null \/ frameIntervalRef # Null

\* a remote session was requested by liveConnect and no close was asked of it
SessionOpenOrOpening ==
    \E c \in 1..Len(liveCalls) : liveCalls[c].pc \in {"connecting", "open"}

\* C24 (as claimed): while isLive is false no microphone track is captured,
\* no realtime input is sent and no remote session is open or being opened.
C24_NotLiveMeansNothingRuns ==
    ~isLive => (~MicCaptured /\ ~InputSent /\ ~SessionOpenOrOpening)

\* C25 (as claimed): the step in which startConversation fails after the
\* microphone stream was acquired leaves no microphone track live, neither
\* audio context running and the stream reference null.
C25_FailedStartReleasesResources ==
    [][ \A c \in 1..Len(liveCalls) :
          (MicGranted(c) /\ liveCalls'[c].pc = "failed") =>
             /\ ~MicCaptured'
             /\ inputAudioContextRef'.state # "running"
             /\ outputAudioContextRef'.state # "running"
             /\ streamRef' = Null
      ]_vars

\* C26 (as claimed): when the handler of a chunk that was suspended at its
\* await while an interrupted message was handled resumes, it starts no
\* source and adds none to the set.
C26_StaleChunkNotPlayed ==
    [][ (DecodeDone /\ Head(decoding).stale) =>
          /\ Len(scheduled') = Len(scheduled)
          /\ sourcesRef' = sourcesRef
      ]_vars

-----------------------------------------------------------------------------
(* App: regenerate, request contents, edits during streaming *)

ActiveMessages(sessions) == FindChat(sessions, activeChatId).messages

\* C27 (as claimed): handleRegenerate leaves in the session, and hands to the
\* new generation, the messages before the last model message, earlier model
\* replies included, in their order: the list without its last message.
C27_RegenerateDropsOnlyLastReply ==
    [][ HandleRegenerate =>
          LET old == ActiveMessages(chatSessions)
              kept == SubSeq(old, 1, Len(old) - 1)
          IN  /\ ActiveMessages(chatSessions') = kept
              /\ timers'[Len(timers')].history = kept
      ]_vars

\* apiHistory of initializeChat followed by the message streamResponse sends:
\* the turns of the request, as role and text
RequestTurns(g) ==
    [k \in 1..Len(g.history) |-> <<g.history[k].role, g.history[k].content>>]
       \o << <<USER, g.prompt>> >>

\* the request ends with the same user turn twice
TurnSentTwice(g) ==
    LET turns == RequestTurns(g)
        n == Len(turns)
    IN  n >= 2 /\ turns[n - 1] = turns[n]

\* C28 (as claimed): the request of every generation that send, edit or
\* regenerate starts holds the new user turn once: the history given to
\* initializeChat ends before that turn, which is sent as the message.
C28_NewTurnSentOnce ==
    [][ \A g \in 1..Len(gens') :
          (g > Len(gens) /\ (TimerFire \/ \E prompt \in Prompts : HandleSend(prompt))) =>
             ~TurnSentTwice(gens'[g])
      ]_vars

\* C29 (as claimed): while a generation is in flight and its session is in
\* the store, its placeholder message is in that session's message list.
C29_PlaceholderKeptWhileInFlight ==
    \A g \in 1..Len(gens) :
        (InFlight(gens[g]) /\ HasChat(chatSessions, gens[g].chatId)) =>
            PlaceholderMsgs(chatSessions, gens[g]) # {}

-----------------------------------------------------------------------------
(* Folders: members are sessions of the store *)

\* C30: from an empty store, after every new-chat, delete-chat,
\* create-folder, delete-folder or move-chat step each id in a folder's
\* member list is the id of a session in the store; a deleted session's id
\* is in no folder; a move to a folder id that no folder has puts the chat
\* in no folder.
C30_FolderMembersAreSessions ==
    [][ /\ Foldered(folders') \subseteq Ids(chatSessions')
        /\ \A c \in Ids(chatSessions) :
             /\ HandleDeleteChat(c, TRUE) => c \notin Foldered(folders')
             /\ \A f \in FolderIdInputs :
                  (HandleMoveChatToFolder(c, f) /\ f \notin Ids(folders)) =>
                     c \notin Foldered(folders')
      ]_vars

\* C30 witness: a folder made in the millisecond of the mount is there, so
\* the session of the mount existed; that session has been deleted, and the
\* only folder member is the session created a millisecond later.
C30_Witness ==
    /\ loaded
    /\ StartTime \in Ids(folders)
    /\ StartTime \notin Ids(chatSessions)
    /\ Foldered(folders) = {StartTime + MaxTicks}
    /\ StartTime + MaxTicks \in Ids(chatSessions)

====
